---- MODULE Spec2Model ----
(***************************************************************************)
(* Model of superchat's staged chat flow: StagedFlowManager                *)
(* (core/staged_flow.py), the part of MessageHandler it drives             *)
(* (core/message_handler.py), the session counters (core/session.py) and   *)
(* the /promote, /boot, /restart commands (core/command_handler.py).       *)
(*                                                                         *)
(* Every method is an operator from the object's state (a record `st`) to  *)
(* a record [st |-> state after the call, ret |-> what the call returned]. *)
(* The actions apply one entry point each to the current state.            *)
(***************************************************************************)
EXTENDS Integers, Sequences, FiniteSets, TLC

\* ------------------------------------------------------------------ bounds
\* Largest number of configured agents (len(self.agents)) explored.
MaxAgents == 3
\* Largest number of agent.run invocations in one behaviour.
MaxCalls == 2
\* Largest number of messages a single-agent session sends.
MaxMessages == 5
\* Largest number of agent.run invocations of a multi-agent session of the chat
\* loop, 1:1 conversations and team rounds together.
MaxRuns == 4

\* Python's None.
None == "None"

\* Texts the user can type. The router only passes on the stripped, non-empty
\* text of a parse_input 'message', so the empty string is not among them.
Messages == {"q1", "q2"}

\* Texts an agent can answer with.
Responses == {"r1"}

\* What one agent.run(...) can do: return a task result carrying a response and
\* a token usage, fail with an OpenRouter quota/credits error, or fail with any
\* other exception.
OkOutcomes ==
    { [kind |-> "ok", response |-> r, prompt_tokens |-> u[1], completion_tokens |-> u[2]] :
        r \in Responses, u \in {<<0, 0>>, <<10, 5>>} }

QuotaOutcome ==
    [kind |-> "quota", response |-> None, prompt_tokens |-> 0, completion_tokens |-> 0]

ErrorOutcome ==
    [kind |-> "error", response |-> None, prompt_tokens |-> 0, completion_tokens |-> 0]

Outcomes == OkOutcomes \cup {QuotaOutcome, ErrorOutcome}

\* ------------------------------------------------------------------- state
VARIABLES
    agent_count,                \* len(self.agents), fixed at construction
    current_agent_index,        \* StagedFlowManager.current_agent_index
    phase,                      \* StagedFlowManager.phase
    original_prompt,            \* StagedFlowManager.original_prompt
    awaiting_initial_question,  \* StagedFlowManager.awaiting_initial_question
    agent_transcripts,          \* StagedFlowManager.agent_transcripts (a dict)
    total_input_tokens,         \* SessionConfig.total_input_tokens
    total_output_tokens,        \* SessionConfig.total_output_tokens
    total_tokens,               \* SessionConfig.total_tokens
    conversation_rounds,        \* SessionConfig.conversation_rounds
    entry,                      \* the entry point the last step ran
    result,                     \* what the entry point's first call returned
    followup,                   \* what the call it made next returned
    calls,                      \* history: number of agent.run invocations
    promote_calls,              \* history: agents a successful promote was issued for
    models,                     \* SessionConfig.models
    is_multi_agent,             \* MessageRouter.is_multi_agent
    staged_flow_manager,        \* whether a StagedFlowManager was given (not None)
    conversation_history,       \* ChatSession.conversation_history
    loop,                       \* where the chat loop stands
    dispatch,                   \* what the loop's last iteration dispatched
    log,                        \* history: the single-agent sends and team rounds
    round,                      \* where a run of _process_all_agents stands
    user_input,                 \* the text parse_input is given
    parsed,                     \* the dict parse_input returned
    current_model,              \* SessionConfig.current_model
    accepted                    \* history: number of promote and boot calls that succeeded

vars ==
    << agent_count, current_agent_index, phase, original_prompt,
       awaiting_initial_question, agent_transcripts, total_input_tokens,
       total_output_tokens, total_tokens, conversation_rounds, entry, result,
       followup, calls, promote_calls, models, is_multi_agent,
       staged_flow_manager, conversation_history, loop, dispatch, log, round,
       user_input, parsed, current_model, accepted >>

\* No run of _process_all_agents is under way.
NoRound ==
    [ pc |-> "idle", i |-> 0, in_flight |-> {}, agent_runs |-> <<>> ]

\* parse_input has not been applied.
NoParse == [ type |-> "none" ]

\* The objects' fields as one record, the `self` the methods work on.
Self ==
    [ agent_count |-> agent_count,
      current_agent_index |-> current_agent_index,
      phase |-> phase,
      original_prompt |-> original_prompt,
      awaiting_initial_question |-> awaiting_initial_question,
      agent_transcripts |-> agent_transcripts,
      total_input_tokens |-> total_input_tokens,
      total_output_tokens |-> total_output_tokens,
      total_tokens |-> total_tokens,
      conversation_rounds |-> conversation_rounds,
      conversation_history |-> conversation_history ]

\* A returned value. Dict results keep their keys; a key the dict does not
\* carry has the default that result.get(key, default) reads. Methods returning
\* a bool put it in `success`; `raised` says an exception left the call; `text`
\* is the message the call was given and `agent_called` the index of the agent
\* whose run() it invoked (-1 when it invoked none).
NoRet ==
    [ op |-> "none", text |-> None, raised |-> FALSE, success |-> FALSE, message |-> "",
      phase |-> None, next_phase |-> None, all_promoted |-> FALSE,
      all_booted |-> FALSE, all_processed |-> FALSE, should_auto_send |-> FALSE,
      promoted_agents |-> <<>>, assembled_context |-> <<>>, max_turns |-> 0,
      agent_called |-> -1 ]

\* What one iteration of the chat loop dispatched: the mode the router
\* detected and the handlers it called, the agent.run invocations made (agent
\* index and what the call did), the (should_continue, should_exit) a command
\* returned, and whether an exception left the router or command handler.
NoDispatch ==
    [ input |-> "none", chat_mode |-> None, handlers |-> <<>>, agent_runs |-> <<>>,
      should_continue |-> FALSE, should_exit |-> FALSE, escaped |-> FALSE ]

\* ------------------------------------------------------- SessionConfig
\* The None that stands for "no usage dict".
NoUsage ==
    [is_none |-> TRUE, prompt_tokens |-> 0, completion_tokens |-> 0, total_tokens |-> 0]

\* extract_usage_from_task_result giving the completion tokens as the total.
extract_usage_from_task_result_completion_total(o) ==
    IF o.prompt_tokens > 0 \/ o.completion_tokens > 0
    THEN [ is_none |-> FALSE,
           prompt_tokens |-> o.prompt_tokens,
           completion_tokens |-> o.completion_tokens,
           total_tokens |-> o.completion_tokens ]
    ELSE NoUsage

\* extract_usage_from_task_result: the usage dict, or None when no token was
\* reported.
extract_usage_from_task_result(o) ==
    IF o.prompt_tokens > 0 \/ o.completion_tokens > 0
    THEN [ is_none |-> FALSE,
           prompt_tokens |-> o.prompt_tokens,
           completion_tokens |-> o.completion_tokens,
           total_tokens |-> o.prompt_tokens + o.completion_tokens ]
    ELSE NoUsage

\* add_usage_data adding the prompt tokens only to total_tokens.
add_usage_data_prompt_only(st, usage_data) ==
    [ st EXCEPT !.total_input_tokens = @ + usage_data.prompt_tokens,
                !.total_output_tokens = @ + usage_data.completion_tokens,
                !.total_tokens = @ + usage_data.prompt_tokens,
                !.conversation_rounds = @ + 1 ]

add_usage_data(st, usage_data) ==
    [ st EXCEPT !.total_input_tokens = @ + usage_data.prompt_tokens,
                !.total_output_tokens = @ + usage_data.completion_tokens,
                !.total_tokens = @ + usage_data.total_tokens,
                !.conversation_rounds = @ + 1 ]

\* ------------------------------------------------------- MessageHandler
\* The None that stands for "no exchange dict".
NoExchange ==
    [is_none |-> TRUE, user_message |-> None, agent_response |-> None, agent_index |-> -1]

\* handle_single_agent_response counting a round before it knows whether the
\* run succeeded.
handle_single_agent_response_counting_first(st, message, agent_index, o) ==
    LET st0 == add_usage_data(st, NoUsage)
    IN  IF o.kind = "quota"
        THEN [st |-> st0, raised |-> FALSE, exchange |-> NoExchange]
        ELSE IF o.kind = "error"
        THEN [st |-> st0, raised |-> TRUE, exchange |-> NoExchange]
        ELSE LET usage_data == extract_usage_from_task_result(o)
             IN  [ st |-> [st0 EXCEPT
                              !.total_input_tokens = @ + usage_data.prompt_tokens,
                              !.total_output_tokens = @ + usage_data.completion_tokens,
                              !.total_tokens = @ + usage_data.total_tokens],
                   raised |-> FALSE,
                   exchange |-> [ is_none |-> FALSE,
                                  user_message |-> message,
                                  agent_response |-> o.response,
                                  agent_index |-> agent_index ] ]

\* handle_single_agent_response(message, agent_index) when agent.run does `o`:
\* exchange is the returned dict, or None after a handled quota error; any
\* other exception is raised again.
handle_single_agent_response(st, message, agent_index, o) ==
    IF o.kind = "quota"
    THEN [st |-> st, raised |-> FALSE, exchange |-> NoExchange]
    ELSE IF o.kind = "error"
    THEN [st |-> st, raised |-> TRUE, exchange |-> NoExchange]
    ELSE LET usage_data == extract_usage_from_task_result(o)
         IN  [ st |-> IF ~usage_data.is_none THEN add_usage_data(st, usage_data) ELSE st,
               raised |-> FALSE,
               exchange |-> [ is_none |-> FALSE,
                              user_message |-> message,
                              agent_response |-> o.response,
                              agent_index |-> agent_index ] ]

\* ----------------------------------------------------- StagedFlowManager
has_more_agents(st) == st.current_agent_index < st.agent_count

is_individual_phase(st) == st.phase = "individual"

is_team_phase(st) == st.phase = "team"

\* The display name of the agent at an index (distinct models, distinct names).
display_name(i) == i

\* handle_individual_message storing the prompt on every call instead of on
\* the first one only.
handle_individual_message_overwriting(st, message, o) ==
    IF ~has_more_agents(st)
    THEN [ st |-> st,
           ret |-> [NoRet EXCEPT !.op = "handle_individual_message", !.text = message] ]
    ELSE
    LET i == st.current_agent_index
        st1 == [st EXCEPT !.original_prompt = message,
                          !.awaiting_initial_question = FALSE]
        st2 == IF i \notin DOMAIN st1.agent_transcripts
               THEN [st1 EXCEPT !.agent_transcripts =
                        (i :> [messages |-> <<>>, promoted |-> FALSE]) @@ @]
               ELSE st1
        r == handle_single_agent_response(st2, message, i, o)
        st3 == IF ~r.exchange.is_none
               THEN [r.st EXCEPT !.agent_transcripts[i].messages =
                        Append(@, [ user_message |-> r.exchange.user_message,
                                    agent_response |-> r.exchange.agent_response ])]
               ELSE r.st
    IN  [ st |-> st3,
          ret |-> [NoRet EXCEPT !.op = "handle_individual_message",
                                !.text = message,
                                !.raised = r.raised,
                                !.success = ~r.raised,
                                !.agent_called = i] ]

\* handle_individual_message capturing the prompt before it looks whether an
\* agent is left.
handle_individual_message_capturing(st, message, o) ==
    LET st1 == IF st.original_prompt = None
               THEN [st EXCEPT !.original_prompt = message,
                               !.awaiting_initial_question = FALSE]
               ELSE st
    IN
    IF ~has_more_agents(st1)
    THEN [ st |-> st1,
           ret |-> [NoRet EXCEPT !.op = "handle_individual_message", !.text = message] ]
    ELSE
    LET i == st1.current_agent_index
        st2 == IF i \notin DOMAIN st1.agent_transcripts
               THEN [st1 EXCEPT !.agent_transcripts =
                        (i :> [messages |-> <<>>, promoted |-> FALSE]) @@ @]
               ELSE st1
        r == handle_single_agent_response(st2, message, i, o)
        st3 == IF ~r.exchange.is_none
               THEN [r.st EXCEPT !.agent_transcripts[i].messages =
                        Append(@, [ user_message |-> r.exchange.user_message,
                                    agent_response |-> r.exchange.agent_response ])]
               ELSE r.st
    IN  [ st |-> st3,
          ret |-> [NoRet EXCEPT !.op = "handle_individual_message",
                                !.text = message,
                                !.raised = r.raised,
                                !.success = ~r.raised,
                                !.agent_called = i] ]

\* handle_individual_message leaving agent_index of the send at its default.
handle_individual_message_to_first(st, message, o) ==
    IF ~has_more_agents(st)
    THEN [ st |-> st,
           ret |-> [NoRet EXCEPT !.op = "handle_individual_message", !.text = message] ]
    ELSE
    LET i == st.current_agent_index
        st1 == IF st.original_prompt = None
               THEN [st EXCEPT !.original_prompt = message,
                               !.awaiting_initial_question = FALSE]
               ELSE st
        st2 == IF i \notin DOMAIN st1.agent_transcripts
               THEN [st1 EXCEPT !.agent_transcripts =
                        (i :> [messages |-> <<>>, promoted |-> FALSE]) @@ @]
               ELSE st1
        r == handle_single_agent_response(st2, message, 0, o)
        st3 == IF ~r.exchange.is_none
               THEN [r.st EXCEPT !.agent_transcripts[i].messages =
                        Append(@, [ user_message |-> r.exchange.user_message,
                                    agent_response |-> r.exchange.agent_response ])]
               ELSE r.st
    IN  [ st |-> st3,
          ret |-> [NoRet EXCEPT !.op = "handle_individual_message",
                                !.text = message,
                                !.raised = r.raised,
                                !.success = ~r.raised,
                                !.agent_called = 0] ]

\* handle_individual_message creating the transcript as a promoted one.
handle_individual_message_promoting(st, message, o) ==
    IF ~has_more_agents(st)
    THEN [ st |-> st,
           ret |-> [NoRet EXCEPT !.op = "handle_individual_message", !.text = message] ]
    ELSE
    LET i == st.current_agent_index
        st1 == IF st.original_prompt = None
               THEN [st EXCEPT !.original_prompt = message,
                               !.awaiting_initial_question = FALSE]
               ELSE st
        st2 == IF i \notin DOMAIN st1.agent_transcripts
               THEN [st1 EXCEPT !.agent_transcripts =
                        (i :> [messages |-> <<>>, promoted |-> TRUE]) @@ @]
               ELSE st1
        r == handle_single_agent_response(st2, message, i, o)
        st3 == IF ~r.exchange.is_none
               THEN [r.st EXCEPT !.agent_transcripts[i].messages =
                        Append(@, [ user_message |-> r.exchange.user_message,
                                    agent_response |-> r.exchange.agent_response ])]
               ELSE r.st
    IN  [ st |-> st3,
          ret |-> [NoRet EXCEPT !.op = "handle_individual_message",
                                !.text = message,
                                !.raised = r.raised,
                                !.success = ~r.raised,
                                !.agent_called = i] ]

handle_individual_message(st, message, o) ==
    IF ~has_more_agents(st)
    THEN [ st |-> st,
           ret |-> [NoRet EXCEPT !.op = "handle_individual_message", !.text = message] ]
    ELSE
    LET i == st.current_agent_index
        st1 == IF st.original_prompt = None
               THEN [st EXCEPT !.original_prompt = message,
                               !.awaiting_initial_question = FALSE]
               ELSE st
        st2 == IF i \notin DOMAIN st1.agent_transcripts
               THEN [st1 EXCEPT !.agent_transcripts =
                        (i :> [messages |-> <<>>, promoted |-> FALSE]) @@ @]
               ELSE st1
        r == handle_single_agent_response(st2, message, i, o)
        st3 == IF ~r.exchange.is_none
               THEN [r.st EXCEPT !.agent_transcripts[i].messages =
                        Append(@, [ user_message |-> r.exchange.user_message,
                                    agent_response |-> r.exchange.agent_response ])]
               ELSE r.st
    IN  [ st |-> st3,
          ret |-> [NoRet EXCEPT !.op = "handle_individual_message",
                                !.text = message,
                                !.raised = r.raised,
                                !.success = ~r.raised,
                                !.agent_called = i] ]

\* How many transcripts carry promoted = True (boot_current_agent's count).
promoted_count(st) ==
    Cardinality({ i \in DOMAIN st.agent_transcripts : st.agent_transcripts[i].promoted })

\* promote_current_agent advancing only past an agent that has a transcript.
promote_current_agent_waiting(st) ==
    IF ~has_more_agents(st)
    THEN [ st |-> st,
           ret |-> [NoRet EXCEPT !.op = "promote_current_agent",
                                 !.message = "No current agent to promote",
                                 !.phase = st.phase] ]
    ELSE
    LET i == st.current_agent_index
        st1 == IF i \in DOMAIN st.agent_transcripts
               THEN [st EXCEPT !.agent_transcripts[i].promoted = TRUE]
               ELSE st
        st2 == IF i \in DOMAIN st.agent_transcripts
               THEN [st1 EXCEPT !.current_agent_index = @ + 1]
               ELSE st1
    IN  IF ~has_more_agents(st2)
        THEN [ st |-> st2,
               ret |-> [NoRet EXCEPT !.op = "promote_current_agent",
                                     !.success = TRUE,
                                     !.message = "Promoted. All agents promoted.",
                                     !.phase = "completing",
                                     !.next_phase = "team",
                                     !.all_promoted = TRUE] ]
        ELSE [ st |-> st2,
               ret |-> [NoRet EXCEPT !.op = "promote_current_agent",
                                     !.success = TRUE,
                                     !.message = "Promoted. Next",
                                     !.phase = st2.phase,
                                     !.should_auto_send = TRUE] ]

promote_current_agent(st) ==
    IF ~has_more_agents(st)
    THEN [ st |-> st,
           ret |-> [NoRet EXCEPT !.op = "promote_current_agent",
                                 !.message = "No current agent to promote",
                                 !.phase = st.phase] ]
    ELSE
    LET i == st.current_agent_index
        st1 == IF i \in DOMAIN st.agent_transcripts
               THEN [st EXCEPT !.agent_transcripts[i].promoted = TRUE]
               ELSE st
        st2 == [st1 EXCEPT !.current_agent_index = @ + 1]
    IN  IF ~has_more_agents(st2)
        THEN [ st |-> st2,
               ret |-> [NoRet EXCEPT !.op = "promote_current_agent",
                                     !.success = TRUE,
                                     !.message = "Promoted. All agents promoted.",
                                     !.phase = "completing",
                                     !.next_phase = "team",
                                     !.all_promoted = TRUE] ]
        ELSE [ st |-> st2,
               ret |-> [NoRet EXCEPT !.op = "promote_current_agent",
                                     !.success = TRUE,
                                     !.message = "Promoted. Next",
                                     !.phase = st2.phase,
                                     !.should_auto_send = TRUE] ]

\* auto_send_original_prompt reporting the prompt as sent without sending it.
auto_send_original_prompt_skipping(st, o) ==
    IF st.original_prompt # None /\ st.original_prompt # "" /\ has_more_agents(st)
    THEN [ st |-> st,
           ret |-> [NoRet EXCEPT !.op = "auto_send_original_prompt",
                                 !.success = TRUE] ]
    ELSE [st |-> st, ret |-> [NoRet EXCEPT !.op = "auto_send_original_prompt"]]

auto_send_original_prompt(st, o) ==
    IF st.original_prompt # None /\ st.original_prompt # "" /\ has_more_agents(st)
    THEN LET r == handle_individual_message(st, st.original_prompt, o)
         IN  [ st |-> r.st,
               ret |-> [r.ret EXCEPT !.op = "auto_send_original_prompt"] ]
    ELSE [st |-> st, ret |-> [NoRet EXCEPT !.op = "auto_send_original_prompt"]]

\* boot_current_agent marking the transcript the way promote_current_agent
\* does (promoted = True instead of False).
boot_current_agent_marking_promoted(st) ==
    IF ~has_more_agents(st)
    THEN [ st |-> st,
           ret |-> [NoRet EXCEPT !.op = "boot_current_agent",
                                 !.message = "No current agent to boot",
                                 !.phase = st.phase] ]
    ELSE
    LET i == st.current_agent_index
        st1 == IF i \in DOMAIN st.agent_transcripts
               THEN [st EXCEPT !.agent_transcripts[i].promoted = TRUE]
               ELSE st
        st2 == [st1 EXCEPT !.current_agent_index = @ + 1]
    IN  IF ~has_more_agents(st2)
        THEN IF promoted_count(st2) = 0
             THEN [ st |-> st2,
                    ret |-> [NoRet EXCEPT !.op = "boot_current_agent",
                                          !.success = TRUE,
                                          !.message = "Booted. No agents promoted - cannot start team debate.",
                                          !.phase = "completing",
                                          !.all_booted = TRUE] ]
             ELSE [ st |-> st2,
                    ret |-> [NoRet EXCEPT !.op = "boot_current_agent",
                                          !.success = TRUE,
                                          !.message = "Booted. Ready for team debate.",
                                          !.phase = "completing",
                                          !.next_phase = "team",
                                          !.all_processed = TRUE] ]
        ELSE [ st |-> st2,
               ret |-> [NoRet EXCEPT !.op = "boot_current_agent",
                                     !.success = TRUE,
                                     !.message = "Booted. Next",
                                     !.phase = st2.phase,
                                     !.should_auto_send = TRUE] ]

boot_current_agent(st) ==
    IF ~has_more_agents(st)
    THEN [ st |-> st,
           ret |-> [NoRet EXCEPT !.op = "boot_current_agent",
                                 !.message = "No current agent to boot",
                                 !.phase = st.phase] ]
    ELSE
    LET i == st.current_agent_index
        st1 == IF i \in DOMAIN st.agent_transcripts
               THEN [st EXCEPT !.agent_transcripts[i].promoted = FALSE]
               ELSE st
        st2 == [st1 EXCEPT !.current_agent_index = @ + 1]
    IN  IF ~has_more_agents(st2)
        THEN IF promoted_count(st2) = 0
             THEN [ st |-> st2,
                    ret |-> [NoRet EXCEPT !.op = "boot_current_agent",
                                          !.success = TRUE,
                                          !.message = "Booted. No agents promoted - cannot start team debate.",
                                          !.phase = "completing",
                                          !.all_booted = TRUE] ]
             ELSE [ st |-> st2,
                    ret |-> [NoRet EXCEPT !.op = "boot_current_agent",
                                          !.success = TRUE,
                                          !.message = "Booted. Ready for team debate.",
                                          !.phase = "completing",
                                          !.next_phase = "team",
                                          !.all_processed = TRUE] ]
        ELSE [ st |-> st2,
               ret |-> [NoRet EXCEPT !.op = "boot_current_agent",
                                     !.success = TRUE,
                                     !.message = "Booted. Next",
                                     !.phase = st2.phase,
                                     !.should_auto_send = TRUE] ]

\* restart_current_agent dropping every transcript instead of clearing the
\* current agent's.
restart_current_agent_clearing_all(st) ==
    IF ~has_more_agents(st)
    THEN [ st |-> st,
           ret |-> [NoRet EXCEPT !.op = "restart_current_agent",
                                 !.message = "No current agent to restart",
                                 !.phase = st.phase] ]
    ELSE [ st |-> [st EXCEPT !.agent_transcripts = << >>],
           ret |-> [NoRet EXCEPT !.op = "restart_current_agent",
                                 !.success = TRUE,
                                 !.message = "Restarted. Transcript cleared.",
                                 !.phase = st.phase] ]

\* restart_current_agent moving on to the next agent the way boot does.
restart_current_agent_advancing(st) ==
    IF ~has_more_agents(st)
    THEN [ st |-> st,
           ret |-> [NoRet EXCEPT !.op = "restart_current_agent",
                                 !.message = "No current agent to restart",
                                 !.phase = st.phase] ]
    ELSE
    LET i == st.current_agent_index
        st1 == IF i \in DOMAIN st.agent_transcripts
               THEN [st EXCEPT !.agent_transcripts[i].messages = <<>>,
                               !.agent_transcripts[i].promoted = FALSE]
               ELSE st
    IN  [ st |-> [st1 EXCEPT !.current_agent_index = @ + 1],
          ret |-> [NoRet EXCEPT !.op = "restart_current_agent",
                                !.success = TRUE,
                                !.message = "Restarted. Transcript cleared.",
                                !.phase = st1.phase] ]

\* restart_current_agent without the has_more_agents guard: with no current
\* agent the lookup of its info fails with an exception.
restart_current_agent_raising(st) ==
    IF ~has_more_agents(st)
    THEN [ st |-> st,
           ret |-> [NoRet EXCEPT !.op = "restart_current_agent", !.raised = TRUE] ]
    ELSE
    LET i == st.current_agent_index
        st1 == IF i \in DOMAIN st.agent_transcripts
               THEN [st EXCEPT !.agent_transcripts[i].messages = <<>>,
                               !.agent_transcripts[i].promoted = FALSE]
               ELSE st
    IN  [ st |-> st1,
          ret |-> [NoRet EXCEPT !.op = "restart_current_agent",
                                !.success = TRUE,
                                !.message = "Restarted. Transcript cleared.",
                                !.phase = st1.phase] ]

restart_current_agent(st) ==
    IF ~has_more_agents(st)
    THEN [ st |-> st,
           ret |-> [NoRet EXCEPT !.op = "restart_current_agent",
                                 !.message = "No current agent to restart",
                                 !.phase = st.phase] ]
    ELSE
    LET i == st.current_agent_index
        st1 == IF i \in DOMAIN st.agent_transcripts
               THEN [st EXCEPT !.agent_transcripts[i].messages = <<>>,
                               !.agent_transcripts[i].promoted = FALSE]
               ELSE st
    IN  [ st |-> st1,
          ret |-> [NoRet EXCEPT !.op = "restart_current_agent",
                                !.success = TRUE,
                                !.message = "Restarted. Transcript cleared.",
                                !.phase = st1.phase] ]

\* Python's sorted() on a set of agent indices.
RECURSIVE sorted(_)
sorted(S) ==
    IF S = {} THEN <<>>
    ELSE LET m == CHOOSE x \in S : \A y \in S : x <= y
         IN  <<m>> \o sorted(S \ {m})

\* One element of context_parts. The joined string is modelled by the sequence
\* of its parts: kind says which f-string built the part, agent whose display
\* name it carries, text the prompt, user message or agent response in it.
Part(kind, agent, text) == [kind |-> kind, agent |-> agent, text |-> text]

\* The two parts appended for every exchange of a transcript, in order.
RECURSIVE exchange_parts(_, _)
exchange_parts(agent_index, messages) ==
    IF messages = <<>> THEN <<>>
    ELSE << Part("user", -1, Head(messages).user_message),
            Part("agent", display_name(agent_index), Head(messages).agent_response) >>
         \o exchange_parts(agent_index, Tail(messages))

\* transcript_section without the test of the promoted flag: every transcript
\* with exchanges gets a section.
transcript_section_any(st, agent_index) ==
    LET transcript == st.agent_transcripts[agent_index]
    IN  IF transcript.messages = <<>>
        THEN <<>>
        ELSE << Part("header", display_name(agent_index), "Conversation") >>
             \o exchange_parts(agent_index, transcript.messages)

\* The parts one pass of the loop over sorted(agent_transcripts.keys()) appends.
transcript_section(st, agent_index) ==
    LET transcript == st.agent_transcripts[agent_index]
    IN  IF ~transcript.promoted \/ transcript.messages = <<>>
        THEN <<>>
        ELSE << Part("header", display_name(agent_index), "Conversation") >>
             \o exchange_parts(agent_index, transcript.messages)

RECURSIVE transcript_sections(_, _)
transcript_sections(st, keys) ==
    IF keys = <<>> THEN <<>>
    ELSE transcript_section(st, Head(keys)) \o transcript_sections(st, Tail(keys))

\* assemble_comprehensive_context: <<>> stands for the empty string.
assemble_comprehensive_context(st) ==
    IF st.original_prompt = None \/ st.original_prompt = ""
    THEN <<>>
    ELSE << Part("prompt", -1, st.original_prompt) >>
         \o transcript_sections(st, sorted(DOMAIN st.agent_transcripts))
         \o << Part("marker", -1, "Begin Team Debate") >>

\* get_promoted_agents: the agents (by index) of the promoted transcripts.
\* get_promoted_agents taking every agent that has a transcript, promoted or
\* not.
get_promoted_agents_with_transcript(st) ==
    SelectSeq(sorted(DOMAIN st.agent_transcripts), LAMBDA i : i < st.agent_count)

get_promoted_agents(st) ==
    SelectSeq(sorted(DOMAIN st.agent_transcripts),
              LAMBDA i : st.agent_transcripts[i].promoted /\ i < st.agent_count)

\* create_team_with_context: the RoundRobinGroupChat as its participants and
\* max_turns; raised stands for the ValueError.
create_team_with_context(promoted_agents, assembled_context) ==
    IF Len(promoted_agents) < 2
    THEN [raised |-> TRUE, participants |-> <<>>, max_turns |-> 0]
    ELSE [ raised |-> FALSE,
           participants |-> promoted_agents,
           max_turns |-> Len(promoted_agents) ]

\* transition_to_team_phase with the promoted-agents checks left out: the flow
\* turns to the team phase as soon as no agent remains.
transition_to_team_phase_unchecked(st) ==
    IF st.phase = "team" \/ has_more_agents(st)
    THEN [ st |-> st,
           ret |-> [NoRet EXCEPT !.op = "transition_to_team_phase",
                                 !.message = "Cannot transition to team phase",
                                 !.phase = st.phase] ]
    ELSE [ st |-> [st EXCEPT !.phase = "team"],
           ret |-> [NoRet EXCEPT !.op = "transition_to_team_phase",
                                 !.success = TRUE,
                                 !.message = "Transitioned to team debate phase",
                                 !.phase = "team",
                                 !.promoted_agents = get_promoted_agents(st),
                                 !.assembled_context = assemble_comprehensive_context(st),
                                 !.max_turns = Len(get_promoted_agents(st))] ]

\* transition_to_team_phase that also sets current_agent_index back to the
\* first agent when it turns to the team phase.
transition_to_team_phase_rewinding(st) ==
    LET promoted_agents == get_promoted_agents(st)
    IN  IF st.phase = "team" \/ has_more_agents(st) \/ Len(promoted_agents) < 2
        THEN [ st |-> st,
               ret |-> [NoRet EXCEPT !.op = "transition_to_team_phase",
                                     !.message = "Cannot transition to team phase",
                                     !.phase = st.phase] ]
        ELSE [ st |-> [st EXCEPT !.phase = "team", !.current_agent_index = 0],
               ret |-> [NoRet EXCEPT !.op = "transition_to_team_phase",
                                     !.success = TRUE,
                                     !.message = "Transitioned to team debate phase",
                                     !.phase = "team",
                                     !.promoted_agents = promoted_agents,
                                     !.assembled_context = assemble_comprehensive_context(st),
                                     !.max_turns = Len(promoted_agents)] ]

transition_to_team_phase(st) ==
    IF st.phase = "team"
    THEN [ st |-> st,
           ret |-> [NoRet EXCEPT !.op = "transition_to_team_phase",
                                 !.message = "Already in team phase",
                                 !.phase = st.phase] ]
    ELSE IF has_more_agents(st)
    THEN [ st |-> st,
           ret |-> [NoRet EXCEPT !.op = "transition_to_team_phase",
                                 !.message = "Cannot transition to team phase - agents still need promotion",
                                 !.phase = st.phase] ]
    ELSE
    LET promoted_agents == get_promoted_agents(st)
    IN  IF promoted_agents = <<>>
        THEN [ st |-> st,
               ret |-> [NoRet EXCEPT !.op = "transition_to_team_phase",
                                     !.message = "Cannot start team debate - no agents were promoted",
                                     !.phase = st.phase] ]
        ELSE IF Len(promoted_agents) < 2
        THEN [ st |-> st,
               ret |-> [NoRet EXCEPT !.op = "transition_to_team_phase",
                                     !.message = "Cannot start team debate - need at least 2 promoted agents",
                                     !.phase = st.phase] ]
        ELSE
        LET assembled_context == assemble_comprehensive_context(st)
            team == create_team_with_context(promoted_agents, assembled_context)
        IN  IF team.raised
            THEN [ st |-> st,
                   ret |-> [NoRet EXCEPT !.op = "transition_to_team_phase",
                                         !.raised = TRUE] ]
            ELSE [ st |-> [st EXCEPT !.phase = "team"],
                   ret |-> [NoRet EXCEPT !.op = "transition_to_team_phase",
                                         !.success = TRUE,
                                         !.message = "Transitioned to team debate phase",
                                         !.phase = "team",
                                         !.promoted_agents = team.participants,
                                         !.assembled_context = assembled_context,
                                         !.max_turns = team.max_turns] ]

\* -------------------------------------------------- ChatCommandHandler
\* The handlers return (should_continue, should_exit) = (True, False) on every
\* path; what is kept here is what they did to the staged flow: `first` is the
\* result of the staged-flow call they make, `then` the result of the call that
\* follows it (NoRet when there is none). With no chat_session given
\* (the constructor's default) the transition is the staged flow's own.
NotAvailable(op) ==
    [NoRet EXCEPT !.op = op,
                  !.message = "command is only available in staged flow individual phase"]

_handle_promote(st, o) ==
    IF ~is_individual_phase(st)
    THEN [st |-> st, first |-> NotAvailable("_handle_promote"), then |-> NoRet]
    ELSE
    LET p == promote_current_agent(st)
    IN  IF p.ret.all_promoted
        THEN LET t == transition_to_team_phase(p.st)
             IN  [st |-> t.st, first |-> p.ret, then |-> t.ret]
        ELSE IF p.ret.should_auto_send
        THEN LET a == auto_send_original_prompt(p.st, o)
             IN  [st |-> a.st, first |-> p.ret, then |-> a.ret]
        ELSE [st |-> p.st, first |-> p.ret, then |-> NoRet]

_handle_boot(st, o) ==
    IF ~is_individual_phase(st)
    THEN [st |-> st, first |-> NotAvailable("_handle_boot"), then |-> NoRet]
    ELSE
    LET b == boot_current_agent(st)
    IN  IF b.ret.all_processed /\ b.ret.next_phase = "team"
        THEN LET t == transition_to_team_phase(b.st)
             IN  [st |-> t.st, first |-> b.ret, then |-> t.ret]
        ELSE IF b.ret.all_booted
        THEN [st |-> b.st, first |-> b.ret, then |-> NoRet]
        ELSE IF b.ret.should_auto_send
        THEN LET a == auto_send_original_prompt(b.st, o)
             IN  [st |-> a.st, first |-> b.ret, then |-> a.ret]
        ELSE [st |-> b.st, first |-> b.ret, then |-> NoRet]

_handle_restart(st) ==
    IF ~is_individual_phase(st)
    THEN [st |-> st, first |-> NotAvailable("_handle_restart"), then |-> NoRet]
    ELSE LET r == restart_current_agent(st)
         IN  [st |-> r.st, first |-> r.ret, then |-> NoRet]

\* The commands a user can type; "help" stands for every name handle_command
\* does not know.
Commands == {"exit", "stats", "promote", "boot", "restart", "help"}

\* What handle_command(command, args) returns and does: the tuple
\* (should_continue, should_exit), the staged-flow results as in the handlers
\* above, and `escaped` when an exception left it instead of a return value.
\* /promote, /boot and /restart test `self.staged_flow_manager and ...` first:
\* with no staged flow manager they only print.
CommandReturn(st, first, then, should_continue, should_exit) ==
    LET escaped == first.raised \/ then.raised
    IN  [ st |-> st, first |-> first, then |-> then,
          should_continue |-> should_continue /\ ~escaped,
          should_exit |-> should_exit /\ ~escaped,
          escaped |-> escaped ]

_handle_exit(st) ==
    CommandReturn(st, [NoRet EXCEPT !.op = "_handle_exit",
                                    !.message = "Terminating connection"],
                  NoRet, FALSE, TRUE)

_handle_stats(st) ==
    CommandReturn(st, [NoRet EXCEPT !.op = "_handle_stats", !.message = "stats"],
                  NoRet, TRUE, FALSE)

_handle_unknown_command(st, command) ==
    CommandReturn(st, [NoRet EXCEPT !.op = "_handle_unknown_command",
                                    !.text = command,
                                    !.message = "Unknown command"],
                  NoRet, TRUE, FALSE)

\* The method handle_command calls for a command name.
handler_of(command) ==
    CASE command = "exit" -> "_handle_exit"
      [] command = "stats" -> "_handle_stats"
      [] command = "promote" -> "_handle_promote"
      [] command = "boot" -> "_handle_boot"
      [] command = "restart" -> "_handle_restart"
      [] OTHER -> "_handle_unknown_command"

\* handle_command whose /promote, /boot and /restart call the staged flow
\* manager without testing that there is one: with None the call raises.
handle_command_unguarded(st, manager, command, o) ==
    LET AttributeError(op) == [NoRet EXCEPT !.op = op, !.raised = TRUE]
    IN
    IF command = "exit" THEN _handle_exit(st)
    ELSE IF command = "stats" THEN _handle_stats(st)
    ELSE IF command = "promote"
    THEN LET r == IF manager THEN _handle_promote(st, o)
                  ELSE [st |-> st, first |-> AttributeError("_handle_promote"), then |-> NoRet]
         IN  CommandReturn(r.st, r.first, r.then, TRUE, FALSE)
    ELSE IF command = "boot"
    THEN LET r == IF manager THEN _handle_boot(st, o)
                  ELSE [st |-> st, first |-> AttributeError("_handle_boot"), then |-> NoRet]
         IN  CommandReturn(r.st, r.first, r.then, TRUE, FALSE)
    ELSE IF command = "restart"
    THEN LET r == IF manager THEN _handle_restart(st)
                  ELSE [st |-> st, first |-> AttributeError("_handle_restart"), then |-> NoRet]
         IN  CommandReturn(r.st, r.first, r.then, TRUE, FALSE)
    ELSE _handle_unknown_command(st, command)

handle_command(st, manager, command, o) ==
    IF command = "exit" THEN _handle_exit(st)
    ELSE IF command = "stats" THEN _handle_stats(st)
    ELSE IF command = "promote"
    THEN LET r == IF manager THEN _handle_promote(st, o)
                  ELSE [st |-> st, first |-> NotAvailable("_handle_promote"), then |-> NoRet]
         IN  CommandReturn(r.st, r.first, r.then, TRUE, FALSE)
    ELSE IF command = "boot"
    THEN LET r == IF manager THEN _handle_boot(st, o)
                  ELSE [st |-> st, first |-> NotAvailable("_handle_boot"), then |-> NoRet]
         IN  CommandReturn(r.st, r.first, r.then, TRUE, FALSE)
    ELSE IF command = "restart"
    THEN LET r == IF manager THEN _handle_restart(st)
                  ELSE [st |-> st, first |-> NotAvailable("_handle_restart"), then |-> NoRet]
         IN  CommandReturn(r.st, r.first, r.then, TRUE, FALSE)
    ELSE _handle_unknown_command(st, command)

\* ---------------------------------------------------------- ChatSession
\* A TextMessage of the conversation history: its content, and its source, the
\* user or the agent at an index (-1 for the user).
TextMessage(content, source, agent) ==
    [content |-> content, source |-> source, agent |-> agent]

\* The messages of the task results whose source is not the user, in the order
\* the agents answered; an agent whose run raised contributes none.
RECURSIVE agent_responses(_, _, _)
agent_responses(members, outs, k) ==
    IF k > Len(members) THEN <<>>
    ELSE (IF outs[k].kind = "ok"
          THEN <<TextMessage(outs[k].response, "agent", members[k])>>
          ELSE <<>>) \o agent_responses(members, outs, k + 1)

\* The usage accumulated over the agents of one round.
RECURSIVE accumulated_usage(_, _)
accumulated_usage(outs, k) ==
    IF k > Len(outs)
    THEN [is_none |-> FALSE, prompt_tokens |-> 0, completion_tokens |-> 0, total_tokens |-> 0]
    ELSE LET rest == accumulated_usage(outs, k + 1)
             usage_data == IF outs[k].kind = "ok"
                           THEN extract_usage_from_task_result(outs[k])
                           ELSE NoUsage
         IN  [ is_none |-> FALSE,
               prompt_tokens |-> rest.prompt_tokens + usage_data.prompt_tokens,
               completion_tokens |-> rest.completion_tokens + usage_data.completion_tokens,
               total_tokens |-> rest.total_tokens + usage_data.total_tokens ]

\* _process_all_agents counting the round whether or not a token was reported.
_process_all_agents_counting(st, members, task_message, outs) ==
    LET combined_usage == accumulated_usage(outs, 1)
        st1 == [st EXCEPT !.conversation_history =
                   (@ \o <<TextMessage(task_message, "user", -1)>>)
                      \o agent_responses(members, outs, 1)]
    IN  [ st |-> add_usage_data(st1, combined_usage),
          agent_runs |-> [k \in 1..Len(members) |->
                             [agent |-> members[k], kind |-> outs[k].kind]] ]

\* _process_all_agents(task_message) over the agents `members`, outs[k] being
\* what the run of the k-th of them does. Every agent is run, one after the
\* other; an exception of a run is printed and the loop goes on. The history
\* and the counters are written once, after the loop.
_process_all_agents(st, members, task_message, outs) ==
    LET combined_usage == accumulated_usage(outs, 1)
        st1 == [st EXCEPT !.conversation_history =
                   (@ \o <<TextMessage(task_message, "user", -1)>>)
                      \o agent_responses(members, outs, 1)]
    IN  [ st |-> IF combined_usage.total_tokens > 0
                 THEN add_usage_data(st1, combined_usage)
                 ELSE st1,
          agent_runs |-> [k \in 1..Len(members) |->
                             [agent |-> members[k], kind |-> outs[k].kind]] ]

\* The agents of the team conversation: the promoted agents once the staged
\* flow built its team, every agent when there is no staged flow.
team_agents(st, manager) ==
    IF manager THEN get_promoted_agents(st)
    ELSE [k \in 1..st.agent_count |-> k - 1]

\* ChatSession._handle_multi_agent_conversation(message): one round in which
\* each agent of the team answers once.
_handle_multi_agent_conversation(st, manager, message, outs) ==
    _process_all_agents(st, team_agents(st, manager), message, outs)

\* -------------------------------------------------------- MessageRouter
\* _detect_chat_mode that does not look at the staged flow's phase.
_detect_chat_mode_ignoring_phase(st, multi, manager) ==
    IF ~multi THEN "single"
    ELSE IF manager THEN "staged_individual"
    ELSE "default_team"

_detect_chat_mode(st, multi, manager) ==
    IF ~multi THEN "single"
    ELSE IF manager /\ is_individual_phase(st) THEN "staged_individual"
    ELSE IF manager /\ is_team_phase(st) THEN "staged_team"
    ELSE "default_team"

\* How many agent.run outcomes a message needs: one per agent of the team in
\* the team modes, one otherwise.
runs_needed(st, multi, manager) ==
    IF _detect_chat_mode(st, multi, manager) \in {"staged_team", "default_team"}
    THEN Len(team_agents(st, manager))
    ELSE 1

\* route_message(message), outs being what the agent.run calls it leads to do.
\* `handlers` lists the _handle_* methods called, `ret` is what the staged flow
\* returned, `agent_runs` the runs made. The except clause catches whatever a
\* handler raises, so nothing escapes.
route_message(st, multi, manager, message, outs) ==
    LET chat_mode == _detect_chat_mode(st, multi, manager)
    IN  IF chat_mode = "single"
        THEN LET r == handle_single_agent_response(st, message, 0, outs[1])
             IN  [ st |-> r.st, chat_mode |-> chat_mode,
                   handlers |-> <<"_handle_single_agent">>,
                   ret |-> [NoRet EXCEPT !.op = "handle_single_agent_response",
                                         !.text = message,
                                         !.raised = r.raised,
                                         !.success = ~r.exchange.is_none,
                                         !.agent_called = 0],
                   agent_runs |-> <<[agent |-> 0, kind |-> outs[1].kind]>>,
                   escaped |-> FALSE ]
        ELSE IF chat_mode = "staged_individual"
        THEN LET r == handle_individual_message(st, message, outs[1])
             IN  [ st |-> r.st, chat_mode |-> chat_mode,
                   handlers |-> <<"_handle_staged_individual">>,
                   ret |-> r.ret,
                   agent_runs |-> IF r.ret.agent_called = -1 THEN <<>>
                                  ELSE <<[agent |-> r.ret.agent_called,
                                          kind |-> outs[1].kind]>>,
                   escaped |-> FALSE ]
        ELSE LET r == _handle_multi_agent_conversation(st, manager, message, outs)
             IN  [ st |-> r.st, chat_mode |-> chat_mode,
                   handlers |-> IF chat_mode = "staged_team"
                                THEN <<"_handle_staged_team">>
                                ELSE <<"_handle_default_team">>,
                   ret |-> [NoRet EXCEPT !.op = "_handle_multi_agent_conversation",
                                         !.text = message,
                                         !.success = TRUE],
                   agent_runs |-> r.agent_runs,
                   escaped |-> FALSE ]

\* ----------------------------------------------------------------- actions
\* The state after StagedFlowManager.__init__ and SessionConfig.__init__. The
\* staged flow is a multi-agent mode (is_multi_agent: more than one model), so
\* there are at least two agents.
Init ==
    /\ agent_count \in 2..MaxAgents
    /\ current_agent_index = 0
    /\ phase = "individual"
    /\ original_prompt = None
    /\ awaiting_initial_question = TRUE
    /\ agent_transcripts = << >>
    /\ total_input_tokens = 0
    /\ total_output_tokens = 0
    /\ total_tokens = 0
    /\ conversation_rounds = 0
    /\ entry = "__init__"
    /\ result = NoRet
    /\ followup = NoRet
    /\ calls = 0
    /\ promote_calls = {}
    /\ models = [k \in 1..agent_count |-> k - 1]
    /\ is_multi_agent = TRUE
    /\ staged_flow_manager = TRUE
    /\ conversation_history = <<>>
    /\ loop = "reading"
    /\ dispatch = NoDispatch
    /\ log = <<>>
    /\ round = NoRound
    /\ user_input = <<>>
    /\ parsed = NoParse
    /\ current_model = None
    /\ accepted = 0

\* The call that returned `first` was a promote or a boot that succeeded.
Advanced(first) ==
    first.op \in {"promote_current_agent", "boot_current_agent"} /\ first.success

\* The fields of `st` become the next state; name is the entry point that ran,
\* first and then are what its calls returned. An entry point that invokes
\* agent.run is taken only while fewer than MaxCalls invocations were made.
\* The methods of the staged flow are called on the object, outside the chat
\* loop, whose own state stays as it is.
Commit(name, st, first, then) ==
    LET called == first.agent_called # -1 \/ then.agent_called # -1
    IN  /\ called => calls < MaxCalls
        /\ UNCHANGED << models, is_multi_agent, staged_flow_manager,
                        conversation_history, loop, dispatch, log, round,
                        user_input, parsed, current_model >>
        /\ accepted' = IF Advanced(first) THEN accepted + 1 ELSE accepted
        /\ agent_count' = st.agent_count
        /\ current_agent_index' = st.current_agent_index
        /\ phase' = st.phase
        /\ original_prompt' = st.original_prompt
        /\ awaiting_initial_question' = st.awaiting_initial_question
        /\ agent_transcripts' = st.agent_transcripts
        /\ total_input_tokens' = st.total_input_tokens
        /\ total_output_tokens' = st.total_output_tokens
        /\ total_tokens' = st.total_tokens
        /\ conversation_rounds' = st.conversation_rounds
        /\ entry' = name
        /\ result' = first
        /\ followup' = then
        /\ calls' = IF called THEN calls + 1 ELSE calls
        /\ promote_calls' =
              IF first.op = "promote_current_agent" /\ first.success
              THEN promote_calls \cup {current_agent_index}
              ELSE promote_calls

HandleIndividualMessage ==
    \E message \in Messages, o \in Outcomes :
        \E r \in {handle_individual_message(Self, message, o)} :
            Commit("handle_individual_message", r.st, r.ret, NoRet)

PromoteCurrentAgent ==
    \E r \in {promote_current_agent(Self)} :
        Commit("promote_current_agent", r.st, r.ret, NoRet)

BootCurrentAgent ==
    \E r \in {boot_current_agent(Self)} :
        Commit("boot_current_agent", r.st, r.ret, NoRet)

RestartCurrentAgent ==
    \E r \in {restart_current_agent(Self)} :
        Commit("restart_current_agent", r.st, r.ret, NoRet)

AutoSendOriginalPrompt ==
    \E o \in Outcomes :
        \E r \in {auto_send_original_prompt(Self, o)} :
            Commit("auto_send_original_prompt", r.st, r.ret, NoRet)

AssembleComprehensiveContext ==
    \E context \in {assemble_comprehensive_context(Self)} :
        Commit("assemble_comprehensive_context", Self,
               [NoRet EXCEPT !.op = "assemble_comprehensive_context",
                             !.success = TRUE,
                             !.assembled_context = context],
               NoRet)

TransitionToTeamPhase ==
    \E r \in {transition_to_team_phase(Self)} :
        Commit("transition_to_team_phase", r.st, r.ret, NoRet)

HandlePromote ==
    \E o \in Outcomes :
        \E r \in {_handle_promote(Self, o)} :
            Commit("_handle_promote", r.st, r.first, r.then)

HandleBoot ==
    \E o \in Outcomes :
        \E r \in {_handle_boot(Self, o)} :
            Commit("_handle_boot", r.st, r.first, r.then)

HandleRestart ==
    \E r \in {_handle_restart(Self)} :
        Commit("_handle_restart", r.st, r.first, r.then)

Next ==
    \/ HandleIndividualMessage
    \/ PromoteCurrentAgent
    \/ BootCurrentAgent
    \/ RestartCurrentAgent
    \/ AutoSendOriginalPrompt
    \/ AssembleComprehensiveContext
    \/ TransitionToTeamPhase
    \/ HandlePromote
    \/ HandleBoot
    \/ HandleRestart

Spec == Init /\ [][Next]_vars

\* --------------------------------------------------------- the chat loop
\* A session as the chat loop runs it: one agent (single-agent mode), several
\* agents without a staged flow, or several agents with one. is_multi_agent is
\* len(models) > 1, and a staged flow manager is given to multi-agent sessions
\* only (the staged flow needs two promoted agents for its team).
ChatInit ==
    /\ \E multi \in BOOLEAN, manager \in BOOLEAN, n \in 1..MaxAgents :
          /\ multi <=> n > 1
          /\ manager => multi
          /\ is_multi_agent = multi
          /\ staged_flow_manager = manager
          /\ agent_count = n
    /\ current_agent_index = 0
    /\ phase = "individual"
    /\ original_prompt = None
    /\ awaiting_initial_question = TRUE
    /\ agent_transcripts = << >>
    /\ total_input_tokens = 0
    /\ total_output_tokens = 0
    /\ total_tokens = 0
    /\ conversation_rounds = 0
    /\ entry = "__init__"
    /\ result = NoRet
    /\ followup = NoRet
    /\ calls = 0
    /\ promote_calls = {}
    /\ models = [k \in 1..agent_count |-> k - 1]
    /\ conversation_history = <<>>
    /\ loop = "reading"
    /\ dispatch = NoDispatch
    /\ log = <<>>
    /\ round = NoRound
    /\ user_input = <<>>
    /\ parsed = NoParse
    /\ current_model = None
    /\ accepted = 0

\* One iteration of the loop ran entry point `name`: the fields of `st` become
\* the next state, d is what was dispatched and sent what is added to the log.
\* The iteration that follows runs only while the loop is reading.
Iterate(name, st, first, then, d, sent) ==
    /\ loop = "reading"
    /\ UNCHANGED << models, is_multi_agent, staged_flow_manager, promote_calls,
                    round, user_input, parsed, current_model >>
    /\ accepted' = IF Advanced(first) THEN accepted + 1 ELSE accepted
    /\ agent_count' = st.agent_count
    /\ current_agent_index' = st.current_agent_index
    /\ phase' = st.phase
    /\ original_prompt' = st.original_prompt
    /\ awaiting_initial_question' = st.awaiting_initial_question
    /\ agent_transcripts' = st.agent_transcripts
    /\ total_input_tokens' = st.total_input_tokens
    /\ total_output_tokens' = st.total_output_tokens
    /\ total_tokens' = st.total_tokens
    /\ conversation_rounds' = st.conversation_rounds
    /\ conversation_history' = st.conversation_history
    /\ entry' = name
    /\ result' = first
    /\ followup' = then
    /\ dispatch' = d
    /\ log' = log \o sent
    /\ loop' = IF d.escaped THEN "crashed"
               ELSE IF d.should_exit THEN "exited"
               ELSE "reading"

\* The user typed a message: the loop hands it to the router. A single-agent
\* session sends at most MaxMessages messages, the 1:1 conversations make at
\* most MaxCalls runs, and a team round is run while the session stays within
\* MaxRuns runs.
ReadMessage ==
    \E message \in Messages :
        \E outs \in [1..runs_needed(Self, is_multi_agent, staged_flow_manager) -> Outcomes] :
            \E r \in {route_message(Self, is_multi_agent, staged_flow_manager, message, outs)} :
                /\ r.chat_mode = "single" => Len(log) < MaxMessages
                /\ r.chat_mode \in {"staged_team", "default_team"}
                      => calls + (Len(log) + 1) * Len(outs) <= MaxRuns
                /\ (r.chat_mode = "staged_individual" /\ r.agent_runs # <<>>) => calls < MaxCalls
                /\ calls' = IF r.chat_mode = "staged_individual" /\ r.agent_runs # <<>>
                            THEN calls + 1 ELSE calls
                /\ Iterate("route_message", r.st, r.ret, NoRet,
                           [ input |-> "message", chat_mode |-> r.chat_mode,
                             handlers |-> r.handlers, agent_runs |-> r.agent_runs,
                             should_continue |-> FALSE, should_exit |-> FALSE,
                             escaped |-> r.escaped ],
                           IF r.chat_mode = "single"
                           THEN << [ kind |-> outs[1].kind,
                                     prompt_tokens |-> outs[1].prompt_tokens,
                                     completion_tokens |-> outs[1].completion_tokens ] >>
                           ELSE IF r.chat_mode = "staged_individual" THEN <<>>
                           ELSE << [kind |-> "round", prompt_tokens |-> 0,
                                    completion_tokens |-> 0] >>)

\* The user typed a command: the loop hands it to the command handler, and
\* leaves when told to exit. Nothing between the handler and the loop's
\* KeyboardInterrupt and EOFError clauses catches an exception of the handler.
ReadCommand ==
    \E command \in Commands, o \in Outcomes :
        \E r \in {handle_command(Self, staged_flow_manager, command, o)} :
            /\ r.then.agent_called # -1 => calls < MaxCalls
            /\ calls' = IF r.then.agent_called # -1 THEN calls + 1 ELSE calls
            /\ Iterate("handle_command", r.st, r.first, r.then,
                       [ input |-> command, chat_mode |-> None,
                         handlers |-> <<handler_of(command)>>,
                         agent_runs |-> IF r.then.agent_called = -1 THEN <<>>
                                        ELSE <<[agent |-> r.then.agent_called,
                                                kind |-> o.kind]>>,
                         should_continue |-> r.should_continue,
                         should_exit |-> r.should_exit,
                         escaped |-> r.escaped ],
                       <<>>)

\* input() raised KeyboardInterrupt or EOFError: the loop prints "Terminating
\* connection" and breaks.
ReadInterrupted ==
    \E e \in {"KeyboardInterrupt", "EOFError"} :
        /\ loop = "reading"
        /\ loop' = "terminated"
        /\ entry' = e
        /\ result' = [NoRet EXCEPT !.op = "_async_chat_loop",
                                   !.message = "Terminating connection"]
        /\ followup' = NoRet
        /\ dispatch' = [NoDispatch EXCEPT !.input = e]
        /\ UNCHANGED << agent_count, current_agent_index, phase, original_prompt,
                        awaiting_initial_question, agent_transcripts,
                        total_input_tokens, total_output_tokens, total_tokens,
                        conversation_rounds, calls, promote_calls, models,
                        is_multi_agent, staged_flow_manager, conversation_history,
                        log, round, user_input, parsed, current_model,
                        accepted >>

\* The prompt _handle_agent_discussion gives the agents.
discussion_prompt == "Continue the discussion."

\* _handle_agent_discussion(): a round of every agent on the discussion prompt.
_handle_agent_discussion(st, outs) ==
    _process_all_agents(st, [k \in 1..st.agent_count |-> k - 1], discussion_prompt, outs)

\* The user typed nothing (parse_input says 'empty') in a session without a
\* staged flow: a multi-agent session runs an agent discussion, a single-agent
\* session reads on.
ReadEmpty ==
    /\ ~staged_flow_manager
    /\ \E outs \in [1..(IF is_multi_agent THEN agent_count ELSE 0) -> Outcomes] :
          \E r \in {IF is_multi_agent THEN _handle_agent_discussion(Self, outs)
                    ELSE [st |-> Self, agent_runs |-> <<>>]} :
              /\ is_multi_agent => calls + (Len(log) + 1) * Len(outs) <= MaxRuns
              /\ calls' = calls
              /\ Iterate("_handle_agent_discussion", r.st, NoRet, NoRet,
                         [NoDispatch EXCEPT !.input = "empty",
                                            !.handlers = IF is_multi_agent
                                                         THEN <<"_handle_agent_discussion">>
                                                         ELSE <<>>,
                                            !.agent_runs = r.agent_runs],
                         IF is_multi_agent
                         THEN << [kind |-> "round", prompt_tokens |-> 0,
                                  completion_tokens |-> 0] >>
                         ELSE <<>>)

\* The user typed nothing in a session with a staged flow: the loop reads the
\* next input.
ReadEmptyStaged ==
    /\ staged_flow_manager
    /\ calls' = calls
    /\ Iterate("continue", Self, NoRet, NoRet, [NoDispatch EXCEPT !.input = "empty"], <<>>)

ChatNext ==
    \/ ReadMessage
    \/ ReadCommand
    \/ ReadEmpty
    \/ ReadEmptyStaged
    \/ ReadInterrupted

ChatSpec == ChatInit /\ [][ChatNext]_vars

\* ------------------------------------------------------------------ claims
\* The flow's own fields: what a "no state change" or "nothing else changes"
\* claim speaks of.
FlowState ==
    << current_agent_index, phase, original_prompt, agent_transcripts >>

Counters ==
    << total_input_tokens, total_output_tokens, total_tokens, conversation_rounds >>

\* C1: once promote/boot calls have covered every agent exactly once
\* (current_agent_index = agent_count, still in the individual phase), a
\* following transition_to_team_phase raises nothing, succeeds iff at least two
\* agents were promoted (a successful promote_current_agent was issued for
\* them), and otherwise returns success = false with a message.
C1_TransitionSucceedsIffTwoPromoted ==
    [][ ( /\ entry' = "transition_to_team_phase"
          /\ phase = "individual"
          /\ current_agent_index = agent_count )
        => /\ ~result'.raised
           /\ result'.success <=> Cardinality(promote_calls) >= 2
           /\ ~result'.success => result'.message # "" ]_vars

\* C2: the phase starts as individual; it only ever changes from individual to
\* team, so at most once and never back; and the step that changes it ends the
\* transition in a state with current_agent_index = agent_count and at least
\* two transcripts with promoted = true (the transition itself touches neither,
\* so this is also the state it was called in).
C2_PhaseChangesOnceWhenReady ==
    /\ phase = "individual"
    /\ [][ /\ phase = "team" => phase' = "team"
           /\ phase' # phase =>
                /\ phase = "individual"
                /\ phase' = "team"
                /\ current_agent_index' = agent_count
                /\ promoted_count(Self)' >= 2 ]_vars

\* C2 witness: the flow reached the team phase through a successful transition.
C2_Witness ==
    /\ phase = "team"
    /\ entry = "transition_to_team_phase"
    /\ result.success

\* The agents named by the section headers of a context, in order of appearance.
HeaderAgents(context) ==
    LET headers == SelectSeq(context, LAMBDA part : part.kind = "header")
    IN  [k \in 1..Len(headers) |-> headers[k].agent]

\* A context is the prompt, then sections for exactly the agents in `members`,
\* one each and in ascending index, then the marker; every exchange line in it
\* belongs to a member.
HasSectionsFor(context, members) ==
    LET agents == HeaderAgents(context)
    IN  /\ Len(context) >= 2
        /\ context[1] = Part("prompt", -1, original_prompt)
        /\ context[Len(context)] = Part("marker", -1, "Begin Team Debate")
        /\ \A k \in 1..Len(context) :
              /\ context[k].kind = "prompt" => k = 1
              /\ context[k].kind = "marker" => k = Len(context)
              /\ context[k].kind = "agent" => context[k].agent \in members
        /\ \A k \in 1..Len(agents) - 1 : agents[k] < agents[k + 1]
        /\ {agents[k] : k \in 1..Len(agents)} = {display_name(i) : i \in members}

\* C3 as stated: with an original prompt, assemble_comprehensive_context gives
\* the prompt, one section for each agent whose transcript is promoted and none
\* for any other agent, in ascending agent index, then the marker.
C3_OneSectionPerPromotedAgent ==
    (entry = "assemble_comprehensive_context" /\ original_prompt # None)
    => HasSectionsFor(result.assembled_context,
                      { i \in DOMAIN agent_transcripts : agent_transcripts[i].promoted })

\* C3 as amended: the sections are those of the promoted agents that have at
\* least one recorded exchange; a promoted agent with no recorded exchange gets
\* no section.
C3_OneSectionPerPromotedAgentWithExchanges ==
    (entry = "assemble_comprehensive_context" /\ original_prompt # None)
    => HasSectionsFor(result.assembled_context,
                      { i \in DOMAIN agent_transcripts :
                          /\ agent_transcripts[i].promoted
                          /\ agent_transcripts[i].messages # <<>> })

\* C3 witness: a context was assembled with a section for a promoted agent
\* while a booted agent has recorded exchanges of its own.
C3_Witness ==
    /\ entry = "assemble_comprehensive_context"
    /\ original_prompt # None
    /\ Len(HeaderAgents(result.assembled_context)) >= 1
    /\ \E i \in DOMAIN agent_transcripts :
          /\ ~agent_transcripts[i].promoted
          /\ agent_transcripts[i].messages # <<>>
          /\ i < current_agent_index

\* C4: current_agent_index stays within 0..agent_count and never decreases: a
\* step whose promote_current_agent or boot_current_agent succeeded raises it
\* by exactly one, every other step (messages, auto-replay, restart, assembly,
\* transition, failed operations) leaves it as it was.
C4_IndexAdvancesOnlyOnPromoteOrBoot ==
    /\ [](current_agent_index \in 0..agent_count)
    /\ [][ IF /\ result'.op \in {"promote_current_agent", "boot_current_agent"}
              /\ result'.success
           THEN current_agent_index' = current_agent_index + 1
           ELSE current_agent_index' = current_agent_index ]_vars

\* C4 witness: three agents were stepped through, the last one by a promote or
\* boot that succeeded.
C4_Witness ==
    /\ agent_count = 3
    /\ current_agent_index = agent_count
    /\ result.op \in {"promote_current_agent", "boot_current_agent"}
    /\ result.success

\* C5 as stated: the first call of handle_individual_message (the one made
\* while no prompt is stored) sets original_prompt to its text, and a stored
\* prompt is never changed by any step.
C5_FirstMessageFixesPrompt ==
    [][ /\ (original_prompt = None /\ result'.op = "handle_individual_message")
            => original_prompt' = result'.text
        /\ original_prompt # None => original_prompt' = original_prompt ]_vars

\* C5 as amended: the first call of handle_individual_message made while a
\* current agent is left (current_agent_index < agent_count) sets
\* original_prompt to its text, and a stored prompt is never changed.
C5_FirstAcceptedMessageFixesPrompt ==
    [][ /\ ( /\ original_prompt = None
             /\ result'.op = "handle_individual_message"
             /\ current_agent_index < agent_count )
            => original_prompt' = result'.text
        /\ original_prompt # None => original_prompt' = original_prompt ]_vars

\* C5 witness: a later message with another text went to an agent and the
\* prompt is still the first one.
C5_Witness ==
    /\ entry = "handle_individual_message"
    /\ result.agent_called # -1
    /\ result.text = "q2"
    /\ original_prompt = "q1"

\* C6: a successful restart_current_agent leaves the current agent's transcript
\* (when it has one) with no exchanges and promoted = false, and changes
\* nothing else: the other agents' transcripts, the set of agents that have a
\* transcript, current_agent_index, phase, original_prompt and the counters.
C6_RestartClearsOnlyCurrentAgent ==
    [][ (result'.op = "restart_current_agent" /\ result'.success)
        => /\ current_agent_index' = current_agent_index
           /\ phase' = phase
           /\ original_prompt' = original_prompt
           /\ Counters' = Counters
           /\ DOMAIN agent_transcripts' = DOMAIN agent_transcripts
           /\ \A j \in DOMAIN agent_transcripts :
                 IF j = current_agent_index
                 THEN agent_transcripts'[j] = [messages |-> <<>>, promoted |-> FALSE]
                 ELSE agent_transcripts'[j] = agent_transcripts[j] ]_vars

\* C6 witness: two exchanges were recorded (both counted), the second with the
\* current agent, whose transcript a restart has just emptied while the first
\* agent's exchange is still there.
C6_Witness ==
    /\ result.op = "restart_current_agent"
    /\ result.success
    /\ conversation_rounds = 2
    /\ current_agent_index = 1
    /\ DOMAIN agent_transcripts = {0, 1}
    /\ Len(agent_transcripts[0].messages) = 1
    /\ agent_transcripts[1].messages = <<>>

\* C7: an operation called with its precondition violated (promote, boot or
\* restart with no current agent left; transition_to_team_phase in the team
\* phase, with agents remaining or with fewer than two promoted transcripts)
\* returns success = false with a message, raises nothing and leaves the
\* staged-flow state and the counters unchanged.
C7_PreconditionFailuresChangeNothing ==
    [][ ( \/ /\ result'.op \in {"promote_current_agent", "boot_current_agent",
                                "restart_current_agent"}
             /\ current_agent_index >= agent_count
          \/ /\ entry' = "transition_to_team_phase"
             /\ \/ phase = "team"
                \/ current_agent_index < agent_count
                \/ promoted_count(Self) < 2 )
        => /\ ~result'.success
           /\ ~result'.raised
           /\ result'.message # ""
           /\ FlowState' = FlowState
           /\ Counters' = Counters ]_vars

\* C7 witness: a transition was refused because only one transcript is promoted.
C7_Witness ==
    /\ entry = "transition_to_team_phase"
    /\ ~result.success
    /\ phase = "individual"
    /\ current_agent_index = agent_count
    /\ promoted_count(Self) = 1

\* C8: a step whose promote_current_agent succeeded on agent i (whatever was
\* or was not exchanged with it before) leaves agent i with a transcript that
\* has promoted = true, so that get_promoted_agents returns it, and leaves
\* current_agent_index = i + 1.
C8_PromoteMarksCurrentAgent ==
    [][ (result'.op = "promote_current_agent" /\ result'.success)
        => /\ current_agent_index' = current_agent_index + 1
           /\ current_agent_index \in DOMAIN agent_transcripts'
           /\ agent_transcripts'[current_agent_index].promoted
           /\ \E k \in 1..Len(get_promoted_agents(Self)') :
                 get_promoted_agents(Self)'[k] = current_agent_index ]_vars

\* C9: a step whose boot_current_agent succeeded on agent i advances
\* current_agent_index by one and leaves agent i not promoted. When no agent
\* remains the result carries all_booted exactly when no transcript is
\* promoted and next_phase = 'team' exactly when at least one is, and never
\* should_auto_send; when agents remain it carries neither all_booted nor
\* next_phase and flags should_auto_send.
C9_BootResultTellsWhatIsNext ==
    [][ (result'.op = "boot_current_agent" /\ result'.success)
        => /\ current_agent_index' = current_agent_index + 1
           /\ current_agent_index \in DOMAIN agent_transcripts'
                 => ~agent_transcripts'[current_agent_index].promoted
           /\ IF current_agent_index' = agent_count
              THEN /\ result'.all_booted <=> promoted_count(Self)' = 0
                   /\ result'.next_phase = "team" <=> promoted_count(Self)' >= 1
                   /\ ~result'.should_auto_send
              ELSE /\ ~result'.all_booted
                   /\ result'.next_phase = None
                   /\ result'.should_auto_send ]_vars

\* C9 witness: the last agent was booted while an earlier one is promoted, and
\* the result says the team phase is next.
C9_Witness ==
    /\ result.op = "boot_current_agent"
    /\ result.success
    /\ current_agent_index = agent_count
    /\ promoted_count(Self) >= 1
    /\ result.next_phase = "team"
    /\ ~result.all_booted

\* C10 as stated: every agent with at least one recorded exchange has
\* original_prompt as the user_message of its first recorded exchange.
C10_FirstExchangeIsOriginalPrompt ==
    \A i \in DOMAIN agent_transcripts :
        agent_transcripts[i].messages # <<>>
        => agent_transcripts[i].messages[1].user_message = original_prompt

\* C10 as amended: when /promote or /boot succeeds, leaves an agent remaining
\* and a prompt is stored, the command itself sends original_prompt to the new
\* current agent (before the loop reads input again), and an exchange recorded
\* by that send is the new agent's first and carries original_prompt as its
\* user_message.
C10_ReplaySendsOriginalPromptToNextAgent ==
    [][ ( /\ entry' \in {"_handle_promote", "_handle_boot"}
          /\ result'.success
          /\ current_agent_index' < agent_count
          /\ original_prompt # None )
        => /\ followup'.op = "auto_send_original_prompt"
           /\ followup'.agent_called = current_agent_index'
           /\ followup'.text = original_prompt
           /\ original_prompt' = original_prompt
           /\ current_agent_index' \in DOMAIN agent_transcripts'
           /\ LET messages == agent_transcripts'[current_agent_index'].messages
              IN  \/ messages = <<>>
                  \/ /\ Len(messages) = 1
                     /\ messages[1].user_message = original_prompt ]_vars

\* C10 witness: /promote moved on to the next agent and the replayed prompt was
\* answered and recorded as that agent's first exchange.
C10_Witness ==
    /\ entry = "_handle_promote"
    /\ followup.op = "auto_send_original_prompt"
    /\ followup.success
    /\ current_agent_index \in DOMAIN agent_transcripts
    /\ Len(agent_transcripts[current_agent_index].messages) = 1
    /\ agent_transcripts[current_agent_index].messages[1].user_message = original_prompt

SucceededTransition ==
    IF result.op = "transition_to_team_phase" /\ result.success THEN result
    ELSE IF followup.op = "transition_to_team_phase" /\ followup.success THEN followup
    ELSE NoRet

\* C12: after every successful transition_to_team_phase the team's participants
\* are exactly the agents whose transcript has promoted = true, in ascending
\* agent index, max_turns is their number, no other agent (booted or never
\* promoted) is a participant, and the returned assembled_context is what
\* assemble_comprehensive_context gives in the state the transition started
\* from (the present one with the phase still individual).
C12_TeamIsExactlyThePromotedAgents ==
    LET t == SucceededTransition
        team == t.promoted_agents
        promoted == { i \in DOMAIN agent_transcripts : agent_transcripts[i].promoted }
    IN  t.success
        => /\ \A j, k \in 1..Len(team) : j < k => team[j] < team[k]
           /\ \A i \in 0..(agent_count - 1) :
                 (\E k \in 1..Len(team) : team[k] = i) <=> i \in promoted
           /\ \A k \in 1..Len(team) : team[k] \in 0..(agent_count - 1)
           /\ t.max_turns = Cardinality(promoted)
           /\ t.max_turns = Len(team)
           /\ t.assembled_context =
                 assemble_comprehensive_context([Self EXCEPT !.phase = "individual"])
           /\ phase = "team"

\* A transition that succeeded with an agent left out of the team.
C12_Witness ==
    /\ SucceededTransition.success
    /\ Len(SucceededTransition.promoted_agents) < agent_count
    /\ Len(SucceededTransition.promoted_agents) >= 2
    /\ SucceededTransition.assembled_context # <<>>

\* C13: once the phase is team, no step (a message, a promote, boot or
\* restart, called directly or as /promote, /boot, /restart, a repeated
\* transition, a context assembly or a replay of the prompt) changes the
\* recorded exchanges or the promoted flag of any agent, or creates or removes
\* a transcript.
C13_TeamPhaseFreezesTranscripts ==
    [][ phase = "team" => agent_transcripts' = agent_transcripts ]_vars

\* A restart asked for in the team phase.
C13_Witness ==
    /\ phase = "team"
    /\ entry \in {"restart_current_agent", "_handle_restart"}
    /\ \E i \in DOMAIN agent_transcripts :
          agent_transcripts[i].promoted /\ agent_transcripts[i].messages # <<>>

\* The runs made by the loop's last iteration that failed, with the quota
\* error or with any other exception.
FailedRuns(d) ==
    { k \in 1..Len(d.agent_runs) : d.agent_runs[k].kind \in {"quota", "error"} }

\* C14: in every step of the chat loop (single-agent send, 1:1 send, team
\* round, command) total_input_tokens, total_output_tokens, total_tokens and
\* conversation_rounds do not decrease, and a round all of whose agent runs
\* failed, with the quota error or with any other exception, leaves the four
\* of them as they were.
C14_CountersNeverDecrease ==
    [][ /\ total_input_tokens' >= total_input_tokens
        /\ total_output_tokens' >= total_output_tokens
        /\ total_tokens' >= total_tokens
        /\ conversation_rounds' >= conversation_rounds
        /\ ( /\ dispatch'.agent_runs # <<>>
             /\ FailedRuns(dispatch') = 1..Len(dispatch'.agent_runs) )
           => Counters' = Counters ]_vars

\* A round that failed after a round that was counted.
C14_Witness ==
    /\ dispatch.agent_runs # <<>>
    /\ FailedRuns(dispatch) = 1..Len(dispatch.agent_runs)
    /\ conversation_rounds > 0
    /\ total_tokens > 0

\* The single-agent session has sent k messages so far, each answered with a
\* result reporting p prompt and c completion tokens.
SentAll(k, p, c) ==
    /\ ~is_multi_agent
    /\ Len(log) = k
    /\ \A j \in 1..k : /\ log[j].kind = "ok"
                       /\ log[j].prompt_tokens = p
                       /\ log[j].completion_tokens = c

\* The totals after k exchanges of p prompt and c completion tokens each.
TotalsAre(k, p, c) ==
    /\ total_input_tokens = k * p
    /\ total_output_tokens = k * c
    /\ total_tokens = k * (p + c)
    /\ conversation_rounds = k

\* The token numbers a result can report.
ReportedTokens ==
    { o.prompt_tokens : o \in OkOutcomes } \cup { o.completion_tokens : o \in OkOutcomes }

\* C15 (as claimed): in single-agent mode, after k successful messages each
\* reporting usage (p, c), total_input_tokens = k*p, total_output_tokens = k*c,
\* total_tokens = k*(p+c) and conversation_rounds = k, for every p and c.
C15_TotalsAfterKMessages ==
    \A k \in 1..Len(log), p \in ReportedTokens, c \in ReportedTokens :
        SentAll(k, p, c) => TotalsAre(k, p, c)

\* C15 (amended): in single-agent mode, after k successful messages each
\* reporting usage (p, c) with at least one token (p + c > 0),
\* total_input_tokens = k*p, total_output_tokens = k*c, total_tokens = k*(p+c)
\* and conversation_rounds = k; with k = 5, p = 10, c = 5 total_tokens is 75
\* and conversation_rounds is 5. Messages reporting no token leave the four
\* counters at 0.
C15_TotalsAfterKMessagesWithTokens ==
    /\ \A k \in 1..Len(log), p \in ReportedTokens, c \in ReportedTokens :
          SentAll(k, p, c)
          => IF p + c > 0 THEN TotalsAre(k, p, c) ELSE TotalsAre(0, 0, 0)
    /\ SentAll(5, 10, 5) => total_tokens = 75 /\ conversation_rounds = 5

\* Five messages answered with 10 prompt and 5 completion tokens each.
C15_Witness ==
    /\ SentAll(5, 10, 5)
    /\ total_input_tokens = 50
    /\ total_output_tokens = 25
    /\ dispatch.chat_mode = "single"

\* The loop's last iteration completed an exchange: a run it made returned a
\* result.
Completed(d) ==
    \E k \in 1..Len(d.agent_runs) : d.agent_runs[k].kind = "ok"

\* C16 (as claimed): conversation_rounds goes up by exactly one in every step
\* that completed an exchange (a single-agent send, a 1:1 send or a team round
\* in which a run returned a result), whatever usage was reported, and is left
\* alone by every other step.
C16_RoundsCountCompletedExchanges ==
    [][ conversation_rounds' =
           conversation_rounds + (IF Completed(dispatch') THEN 1 ELSE 0) ]_vars

\* C16 (amended): conversation_rounds goes up by exactly one in every step
\* whose exchange reported at least one token (total_tokens grows), and is left
\* alone by every other step: one whose results reported no token, one whose
\* runs all failed, one that made no run. It goes up only in steps that
\* completed an exchange, and by one for a whole team round.
C16_RoundsCountExchangesWithTokens ==
    [][ /\ conversation_rounds' \in {conversation_rounds, conversation_rounds + 1}
        /\ conversation_rounds' = conversation_rounds + 1 <=> total_tokens' > total_tokens
        /\ conversation_rounds' # conversation_rounds => Completed(dispatch') ]_vars

\* A team round in which two agents answered, counted once.
C16_Witness ==
    /\ Len(dispatch.agent_runs) >= 2
    /\ \A k \in 1..Len(dispatch.agent_runs) : dispatch.agent_runs[k].kind = "ok"
    /\ conversation_rounds = 1
    /\ total_tokens > 15

\* The loop's last iteration routed a message and every run made for it failed
\* with the quota error.
QuotaRound(d) ==
    /\ d.input = "message"
    /\ d.agent_runs # <<>>
    /\ \A k \in 1..Len(d.agent_runs) : d.agent_runs[k].kind = "quota"

\* C17: a message whose agent run fails with the quota error is a round that
\* does nothing: no exception leaves the router, the loop goes on reading, and
\* the counters, every transcript, original_prompt, current_agent_index and
\* phase are what they were before the message.
C17_QuotaRoundChangesNothing ==
    [][ QuotaRound(dispatch')
        => /\ ~dispatch'.escaped
           /\ loop' = "reading"
           /\ Counters' = Counters
           /\ agent_transcripts' = agent_transcripts
           /\ original_prompt' = original_prompt
           /\ current_agent_index' = current_agent_index
           /\ phase' = phase ]_vars

\* The loop's last iteration made a run that failed.
SomeRunFailed(d) == FailedRuns(d) # {}

C19_RouterPicksOneMode ==
    dispatch.input = "message"
    => /\ dispatch.chat_mode \in {"single", "staged_individual", "staged_team", "default_team"}
       /\ dispatch.handlers =
             << CASE dispatch.chat_mode = "single" -> "_handle_single_agent"
                  [] dispatch.chat_mode = "staged_individual" -> "_handle_staged_individual"
                  [] dispatch.chat_mode = "staged_team" -> "_handle_staged_team"
                  [] OTHER -> "_handle_default_team" >>
       /\ dispatch.chat_mode = "single" <=> ~is_multi_agent
       /\ is_multi_agent
          => /\ dispatch.chat_mode = "staged_individual"
                   <=> (staged_flow_manager /\ phase = "individual")
             /\ dispatch.chat_mode = "staged_team"
                   <=> (staged_flow_manager /\ phase = "team")
             /\ dispatch.chat_mode = "default_team" <=> ~staged_flow_manager

\* A message routed to the team of a staged flow.
C19_Witness ==
    /\ dispatch.input = "message"
    /\ dispatch.chat_mode = "staged_team"
    /\ dispatch.handlers = <<"_handle_staged_team">>
    /\ Len(dispatch.agent_runs) >= 2

EndingInputs == {"exit", "KeyboardInterrupt", "EOFError"}

start_round(task_message) ==
    [ pc |-> "loop", i |-> 0, in_flight |-> {}, agent_runs |-> <<>>,
      task_message |-> task_message, outs |-> <<>> ]

\* The head of a loop that a failed run ends.
next_agent_stopping(rd, n) ==
    IF rd.i < n /\ (rd.outs = <<>> \/ rd.outs[Len(rd.outs)].kind = "ok")
    THEN [rd EXCEPT !.pc = "await", !.in_flight = @ \cup {rd.i}]
    ELSE [rd EXCEPT !.pc = "done"]

\* The head of the for loop over enumerate(self.agents) and, when an agent is
\* left, the statements up to `await agent.run(task=agent_context)`.
next_agent(rd, n) ==
    IF rd.i < n
    THEN [rd EXCEPT !.pc = "await", !.in_flight = @ \cup {rd.i}]
    ELSE [rd EXCEPT !.pc = "done"]

\* The rest of the loop body once the awaited run returned or raised: the
\* except clause prints the error and the loop goes on with the next agent.
run_returned(rd, o) ==
    [rd EXCEPT !.pc = "loop",
               !.in_flight = @ \ {rd.i},
               !.agent_runs = Append(@, [agent |-> rd.i, kind |-> o.kind]),
               !.outs = Append(@, o),
               !.i = @ + 1]

RoundInit ==
    /\ ChatInit
    /\ is_multi_agent
    /\ ~staged_flow_manager

\* A round begins, on a message or on the discussion prompt, while the session
\* stays within MaxRuns runs.
StartRound ==
    /\ round.pc = "idle"
    /\ calls + agent_count <= MaxRuns
    /\ \E task_message \in Messages \cup {discussion_prompt} :
          round' = start_round(task_message)
    /\ entry' = "_process_all_agents"
    /\ UNCHANGED << agent_count, current_agent_index, phase, original_prompt,
                    awaiting_initial_question, agent_transcripts,
                    total_input_tokens, total_output_tokens, total_tokens,
                    conversation_rounds, result, followup, calls,
                    promote_calls, models, is_multi_agent, staged_flow_manager,
                    conversation_history, loop, dispatch, log, user_input,
                    parsed, current_model, accepted >>

\* The loop takes the next agent and awaits its run, or ends.
CallAgent ==
    /\ round.pc = "loop"
    /\ \E rd \in {next_agent(round, agent_count)} :
          /\ round' = rd
          /\ calls' = IF rd.pc = "await" THEN calls + 1 ELSE calls
    /\ UNCHANGED << agent_count, current_agent_index, phase, original_prompt,
                    awaiting_initial_question, agent_transcripts,
                    total_input_tokens, total_output_tokens, total_tokens,
                    conversation_rounds, entry, result, followup,
                    promote_calls, models, is_multi_agent, staged_flow_manager,
                    conversation_history, loop, dispatch, log, user_input,
                    parsed, current_model, accepted >>

\* The awaited run returns or raises.
AgentReturns ==
    /\ round.pc = "await"
    /\ \E o \in Outcomes : round' = run_returned(round, o)
    /\ UNCHANGED << agent_count, current_agent_index, phase, original_prompt,
                    awaiting_initial_question, agent_transcripts,
                    total_input_tokens, total_output_tokens, total_tokens,
                    conversation_rounds, entry, result, followup, calls,
                    promote_calls, models, is_multi_agent, staged_flow_manager,
                    conversation_history, loop, dispatch, log, user_input,
                    parsed, current_model, accepted >>

\* The statements after the loop: the history and the counters are written.
FinishRound ==
    /\ round.pc = "done"
    /\ \E r \in {_process_all_agents(Self,
                     [k \in 1..Len(round.outs) |-> round.agent_runs[k].agent],
                     round.task_message, round.outs)} :
          /\ conversation_history' = r.st.conversation_history
          /\ total_input_tokens' = r.st.total_input_tokens
          /\ total_output_tokens' = r.st.total_output_tokens
          /\ total_tokens' = r.st.total_tokens
          /\ conversation_rounds' = r.st.conversation_rounds
    /\ round' = [round EXCEPT !.pc = "idle"]
    /\ UNCHANGED << agent_count, current_agent_index, phase, original_prompt,
                    awaiting_initial_question, agent_transcripts, entry, result,
                    followup, calls, promote_calls, models, is_multi_agent,
                    staged_flow_manager, loop, dispatch, log, user_input,
                    parsed, current_model, accepted >>

RoundNext == StartRound \/ CallAgent \/ AgentReturns \/ FinishRound

RoundSpec == RoundInit /\ [][RoundNext]_vars

MaxInputLen == 5

Whitespace == {" ", "\t"}

Chars == Whitespace \cup {"/", "a", "A"}

InputStrings == UNION {[1..n -> Chars] : n \in 0..MaxInputLen}

\* str.lstrip() and str.rstrip(): the whitespace at one end is dropped.
RECURSIVE lstrip(_)
lstrip(s) ==
    IF s # <<>> /\ Head(s) \in Whitespace THEN lstrip(Tail(s)) ELSE s

RECURSIVE rstrip(_)
rstrip(s) ==
    IF s # <<>> /\ s[Len(s)] \in Whitespace
    THEN rstrip(SubSeq(s, 1, Len(s) - 1))
    ELSE s

\* str.strip().
strip(s) == rstrip(lstrip(s))

\* str.startswith(c) for a single character c.
startswith(s, c) == s # <<>> /\ Head(s) = c

\* str.split() without a separator: leading whitespace is skipped, the
\* characters up to the next whitespace are a part, and so on to the end.
RECURSIVE split_from(_, _)
split_from(s, part) ==
    IF s = <<>> THEN (IF part = <<>> THEN <<>> ELSE <<part>>)
    ELSE IF Head(s) \in Whitespace
         THEN (IF part = <<>> THEN <<>> ELSE <<part>>) \o split_from(Tail(s), <<>>)
         ELSE split_from(Tail(s), Append(part, Head(s)))

split(s) == split_from(s, <<>>)

\* parse_input that looks for the slash in the text as it was typed.
parse_input_unstripped(input) ==
    IF input = <<>> \/ strip(input) = <<>>
    THEN [type |-> "empty", message |-> input]
    ELSE LET stripped_input == strip(input)
         IN  IF startswith(input, "/")
             THEN LET parts == split(stripped_input)
                  IN  [ type |-> "command",
                        command |-> Tail(parts[1]),
                        args |-> IF Len(parts) > 1 THEN Tail(parts) ELSE <<>>,
                        raw |-> input ]
             ELSE [type |-> "message", message |-> stripped_input, raw |-> input]

\* parse_input(user_input).
parse_input(input) ==
    IF input = <<>> \/ strip(input) = <<>>
    THEN [type |-> "empty", message |-> input]
    ELSE LET stripped_input == strip(input)
         IN  IF startswith(stripped_input, "/")
             THEN LET parts == split(stripped_input)
                  IN  [ type |-> "command",
                        command |-> Tail(parts[1]),
                        args |-> IF Len(parts) > 1 THEN Tail(parts) ELSE <<>>,
                        raw |-> input ]
             ELSE [type |-> "message", message |-> stripped_input, raw |-> input]

\* A session in which nothing was sent or typed yet, with two agents.
AtRest ==
    /\ agent_count = 2
    /\ current_agent_index = 0
    /\ phase = "individual"
    /\ original_prompt = None
    /\ awaiting_initial_question = TRUE
    /\ agent_transcripts = << >>
    /\ total_input_tokens = 0
    /\ total_output_tokens = 0
    /\ total_tokens = 0
    /\ conversation_rounds = 0
    /\ entry = "__init__"
    /\ result = NoRet
    /\ followup = NoRet
    /\ calls = 0
    /\ promote_calls = {}
    /\ is_multi_agent = TRUE
    /\ staged_flow_manager = FALSE
    /\ conversation_history = <<>>
    /\ loop = "reading"
    /\ dispatch = NoDispatch
    /\ log = <<>>
    /\ round = NoRound
    /\ accepted = 0

\* The user typed any of the strings; nothing is parsed yet.
ParseInit ==
    /\ AtRest
    /\ models = <<0, 1>>
    /\ current_model = None
    /\ user_input \in InputStrings
    /\ parsed = NoParse

\* The loop hands the typed text to parse_input.
ParseInput ==
    /\ parsed.type = "none"
    /\ parsed' = parse_input(user_input)
    /\ entry' = "parse_input"
    /\ UNCHANGED << agent_count, current_agent_index, phase, original_prompt,
                    awaiting_initial_question, agent_transcripts,
                    total_input_tokens, total_output_tokens, total_tokens,
                    conversation_rounds, result, followup, calls,
                    promote_calls, models, is_multi_agent, staged_flow_manager,
                    conversation_history, loop, dispatch, log, round,
                    user_input, current_model, accepted >>

ParseNext == ParseInput

ParseSpec == ParseInit /\ [][ParseNext]_vars

\* The positions of the typed text that hold no whitespace.
Inked == {k \in 1..Len(user_input) : user_input[k] \notin Whitespace}

\* The typed text from its first to its last such position.
Trimmed ==
    IF Inked = {} THEN <<>>
    ELSE SubSeq(user_input,
                CHOOSE k \in Inked : \A j \in Inked : k <= j,
                CHOOSE k \in Inked : \A j \in Inked : j <= k)

\* The positions at which a token starts, and the token starting at one.
TokenStarts ==
    {k \in Inked : k = 1 \/ user_input[k - 1] \in Whitespace}

TokenAt(k) ==
    SubSeq(user_input, k,
           CHOOSE e \in k..Len(user_input) :
              /\ \A j \in k..e : j \in Inked
              /\ e = Len(user_input) \/ e + 1 \notin Inked)

\* The whitespace-delimited tokens of the typed text, in order.
Tokens ==
    [n \in 1..Cardinality(TokenStarts) |->
        TokenAt(CHOOSE k \in TokenStarts :
                   Cardinality({j \in TokenStarts : j < k}) = n - 1)]

ModelNames == {"m1", "m2", "m3"}

\* `model_name in self.models`.
contains(list, model_name) == \E k \in 1..Len(list) : list[k] = model_name

\* list.remove(x): the first entry equal to x is taken out.
RECURSIVE remove(_, _)
remove(list, x) ==
    IF list = <<>> THEN <<>>
    ELSE IF Head(list) = x THEN Tail(list)
    ELSE <<Head(list)>> \o remove(Tail(list), x)

\* add_model that appends without looking.
add_model_unchecked(list, model_name) ==
    [models |-> Append(list, model_name), ret |-> TRUE]

\* SessionConfig.add_model(model_name).
add_model(list, model_name) ==
    IF ~contains(list, model_name)
    THEN [models |-> Append(list, model_name), ret |-> TRUE]
    ELSE [models |-> list, ret |-> FALSE]

\* SessionConfig.remove_model(model_name), on the list and the current model.
remove_model(list, current, model_name) ==
    IF contains(list, model_name)
    THEN [ models |-> remove(list, model_name),
           current_model |-> IF current = model_name THEN None ELSE current,
           ret |-> TRUE ]
    ELSE [models |-> list, current_model |-> current, ret |-> FALSE]

\* SessionConfig.start_session(): the first model becomes the current one.
start_session(list, current) ==
    IF list # <<>>
    THEN [current_model |-> list[1], ret |-> TRUE]
    ELSE [current_model |-> current, ret |-> FALSE]

\* A SessionConfig as constructed: no model, no current model.
ConfigInit ==
    /\ AtRest
    /\ models = <<>>
    /\ current_model = None
    /\ user_input = <<>>
    /\ parsed = NoParse

\* A call on the configuration returned ret: the list and the current model
\* are the ones it left.
Configure(name, model_name, list, current, ret) ==
    /\ models' = list
    /\ current_model' = current
    /\ entry' = name
    /\ result' = [NoRet EXCEPT !.op = name, !.text = model_name, !.success = ret]
    /\ UNCHANGED << agent_count, current_agent_index, phase, original_prompt,
                    awaiting_initial_question, agent_transcripts,
                    total_input_tokens, total_output_tokens, total_tokens,
                    conversation_rounds, followup, calls, promote_calls,
                    is_multi_agent, staged_flow_manager, conversation_history,
                    loop, dispatch, log, round, user_input, parsed, accepted >>

AddModel ==
    \E model_name \in ModelNames :
       \E r \in {add_model(models, model_name)} :
          Configure("add_model", model_name, r.models, current_model, r.ret)

RemoveModel ==
    \E model_name \in ModelNames :
       \E r \in {remove_model(models, current_model, model_name)} :
          Configure("remove_model", model_name, r.models, r.current_model, r.ret)

StartSession ==
    \E r \in {start_session(models, current_model)} :
       Configure("start_session", None, models, r.current_model, r.ret)

ConfigNext == AddModel \/ RemoveModel \/ StartSession

ConfigSpec == ConfigInit /\ [][ConfigNext]_vars

\* The entries of a list other than x, in the order they have in the list.
Survivors(list, x) == SelectSeq(list, LAMBDA y : y # x)

\* C24: after any sequence of add_model and remove_model calls the model list
\* has no duplicates and keeps the insertion order of the surviving entries:
\* add_model of a present id changes nothing and returns false, add_model of an
\* absent id appends it and returns true, remove_model of a present id removes
\* it, clears current_model if it was that id, and returns true, remove_model
\* of an absent id changes nothing and returns false.
C24_ModelListUniqueInInsertionOrder ==
    [][ LET model_name == result'.text
            present == \E k \in 1..Len(models) : models[k] = model_name
        IN  /\ \A j, k \in 1..Len(models') : models'[j] = models'[k] => j = k
            /\ result'.op = "add_model" /\ present
                  => /\ models' = models
                     /\ current_model' = current_model
                     /\ ~result'.success
            /\ result'.op = "add_model" /\ ~present
                  => /\ models' = Append(models, model_name)
                     /\ current_model' = current_model
                     /\ result'.success
            /\ result'.op = "remove_model" /\ present
                  => /\ models' = Survivors(models, model_name)
                     /\ current_model' = IF current_model = model_name
                                         THEN None ELSE current_model
                     /\ result'.success
            /\ result'.op = "remove_model" /\ ~present
                  => /\ models' = models
                     /\ current_model' = current_model
                     /\ ~result'.success ]_vars

\* A model was removed from between two others, which stay in order.
C24_Witness ==
    /\ result.op = "remove_model"
    /\ result.success
    /\ result.text = "m2"
    /\ models = <<"m1", "m3">>
    /\ current_model = None
    /\ entry = "remove_model"

\* C25: whenever the promote_current_agent or boot_current_agent of a /promote
\* or /boot reports that the team phase is next (next_phase = 'team'), the
\* transition_to_team_phase the command handler runs right after it succeeds
\* and the phase is team.
C25_ReportedTeamPhaseIsReached ==
    ( /\ entry \in {"_handle_promote", "_handle_boot"}
      /\ result.next_phase = "team" )
    => /\ followup.op = "transition_to_team_phase"
       /\ followup.success
       /\ phase = "team"

\* The staged flow with a user who keeps typing: some operation is always
\* taken in the end.
FairSpec == Spec /\ WF_vars(Next)

\* Every agent was stepped over, the phase is individual and fewer than two
\* agents are promoted.
AllSteppedOverFewPromoted ==
    /\ phase = "individual"
    /\ current_agent_index = agent_count
    /\ promoted_count(Self) < 2

\* The last step had an agent accept a message, typed or replayed.
MessageAccepted ==
    \/ result.op = "handle_individual_message" /\ result.success
    \/ followup.op = "auto_send_original_prompt" /\ followup.agent_called # -1

\* C26: a staged session never gets stuck; in particular a state with
\* current_agent_index = agent_count, phase individual and fewer than two
\* promoted agents is not a dead end: from it the user's inputs lead to a
\* message accepted by some agent or to the team phase.
C26_NoDeadEnd ==
    AllSteppedOverFewPromoted ~> (MessageAccepted \/ phase = "team")

\* The exchanges recorded for agent i (none when it has no transcript).
MessagesOf(transcripts, i) ==
    IF i \in DOMAIN transcripts THEN transcripts[i].messages ELSE <<>>

\* C27: in the individual phase each accepted message, typed or replayed, is
\* sent to exactly one agent, the one at current_agent_index, and appends at
\* most one entry, to that agent's transcript only; so agent j is sent a
\* message only once j promotes or boots were accepted, one for each of the
\* agents 0..j-1, and an agent whose turn has passed is sent none.
C27_MessagesGoToTheCurrentAgentOnly ==
    [][ LET sent == {r \in {result', followup'} : r.agent_called # -1}
        IN  /\ Cardinality(sent) <= 1
            /\ \A r \in sent :
                  /\ r.agent_called = current_agent_index'
                  /\ r.agent_called >= current_agent_index
                  /\ r.agent_called < agent_count
                  /\ r.agent_called = accepted'
                  /\ Len(MessagesOf(agent_transcripts', r.agent_called))
                        <= Len(MessagesOf(agent_transcripts, r.agent_called)) + 1
            /\ \A i \in 0..(agent_count - 1) :
                  (\A r \in sent : r.agent_called # i)
                  => Len(MessagesOf(agent_transcripts', i))
                        <= Len(MessagesOf(agent_transcripts, i)) ]_vars

\* The prompt was replayed to the last of three agents, which answered, after
\* the two before it were promoted or booted.
C27_Witness ==
    /\ agent_count = 3
    /\ followup.op = "auto_send_original_prompt"
    /\ followup.agent_called = 2
    /\ Len(MessagesOf(agent_transcripts, 2)) = 1
    /\ accepted = 2

\* C28: in every reachable state of a session total_tokens equals
\* total_input_tokens + total_output_tokens, whatever successful, failed and
\* zero-usage sends and rounds the message handler and the chat loop recorded.
C28_TotalIsInputPlusOutput ==
    total_tokens = total_input_tokens + total_output_tokens

\* Tokens of more than one exchange are counted and the last iteration had a
\* run that failed.
C28_Witness ==
    /\ total_tokens > 15
    /\ \E k \in 1..Len(dispatch.agent_runs) : dispatch.agent_runs[k].kind # "ok"

\* C29: the individual phase finishes with the N-th accepted /promote or
\* /boot and not before: current_agent_index is the number of promotes and
\* boots accepted so far, at most N, whatever messages, restarts and failed
\* sends came between them; messages and /restart alone never advance it.
C29_IndexCountsAcceptedPromotesAndBoots ==
    /\ current_agent_index = accepted
    /\ accepted <= agent_count
    /\ has_more_agents(Self) <=> accepted < agent_count

\* Three agents were stepped over by three accepted commands, with messages
\* answered in between.
C29_Witness ==
    /\ agent_count = 3
    /\ accepted = 3
    /\ ~has_more_agents(Self)
    /\ calls = MaxCalls
    /\ conversation_rounds >= 1

\* Agent i has a transcript marked promoted.
MarkedPromoted(transcripts, i) ==
    i \in DOMAIN transcripts /\ transcripts[i].promoted

\* C30: in every reachable state of the staged flow a transcript exists only
\* for agents i with i <= current_agent_index and i < agent_count, and is
\* marked promoted only for i < current_agent_index: the current agent and the
\* agents not yet reached are never marked promoted. An agent whose turn has
\* passed keeps the mark it left with, so a booted agent never becomes
\* promoted later.
C30_TranscriptsAndMarksFollowTheIndex ==
    /\ [](\A i \in DOMAIN agent_transcripts :
             /\ i <= current_agent_index
             /\ i < agent_count
             /\ agent_transcripts[i].promoted => i < current_agent_index)
    /\ [][ \A i \in 0..(current_agent_index - 1) :
              MarkedPromoted(agent_transcripts', i)
                 <=> MarkedPromoted(agent_transcripts, i) ]_vars

\* Agent 0 was talked to and booted, agent 1 talked to and promoted.
C30_Witness ==
    /\ 0 \in DOMAIN agent_transcripts
    /\ ~agent_transcripts[0].promoted
    /\ MarkedPromoted(agent_transcripts, 1)
    /\ current_agent_index >= 2
====
